---- MODULE Spec2Model ----
(***************************************************************************)
(* Model of generate_demo.py: the run driver (main), the per-repository    *)
(* reconciliation (process_one_repo), the two prerequisite bootstraps      *)
(* (ensure_renovate_file, ensure_workflow_file), the generation call       *)
(* (generate_code) and the file writer (safe_save_files).                  *)
(*                                                                         *)
(* The model starts where main() is entered.  Remote API calls, git        *)
(* commands and the OpenAI call are external: each one nondeterministically*)
(* succeeds or fails, and what the remote answers is drawn from small sets.*)
(*                                                                         *)
(* Two facts of the source shape the model:                                *)
(*  - generate_code ends in `return file_dict` (line 106) while the value  *)
(*    was bound to `files_dict` (line 104): the read of the unbound name   *)
(*    raises NameError, so generate_code never returns a value and lines   *)
(*    313-344 of process_one_repo are never executed;                      *)
(*  - the module imports `Path` from pathlib but never the name `pathlib`  *)
(*    (line 20), so `pathlib.Path(raw_name)` at line 55 raises NameError.  *)
(***************************************************************************)
EXTENDS Integers, Sequences, FiniteSets, TLC

\* ------------------------------------------------------------------ bounds
NumRepos   == 2     \* repositories in TARGET_REPOS
MaxRuns    == 2     \* consecutive runs of the program on the same clones
MaxIssues  == 2     \* open issues a repository holds
MaxKeyLen  == 2     \* characters in a File Set key (safe_save_files inputs)
MaxEntries == 2     \* entries in a File Set (safe_save_files inputs)

\* ------------------------------------------------------------- vocabulary
Repos == 1..NumRepos                      \* positions in the configured list
Kinds == {"renovate", "workflow"}
ISSUE_LABEL  == "python_demonstrator"     \* the tracking label
EXCLUSION_LABEL == "in-progress"          \* the label the spec calls exclusion label
Labels == {ISSUE_LABEL, EXCLUSION_LABEL}

\* branch-name prefix of each bootstrap (the random suffix is abstracted)
BranchPrefix(kind) ==
    IF kind = "renovate" THEN "add-renovate" ELSE "add-workflow"

\* answers of repo.get_contents: the path exists, a GithubException with
\* status 404, a GithubException with another status, or an exception that
\* is not a GithubException (connection error)
ContentsOutcomes == {"exists", "not_found", "gh_error", "other_error"}

\* a bootstrap that starts whatever get_contents answered
CaughtAlways(o) == TRUE

\* lines 178 / 225, `except GithubException`: the answers of get_contents that
\* start the bootstrap; every GithubException does, whatever its status
Caught(o) == o \in {"not_found", "gh_error"}

\* ------------------------------------------------------------- characters
Chars == {"/", ".", "a", " "}

\* the sequences over S of length 0..n
SeqsUpTo(S, n) == UNION {[1..k -> S] : k \in 0..n}

Keys == SeqsUpTo(Chars, MaxKeyLen)

\* str.strip(): drop leading and trailing whitespace
RECURSIVE lstrip(_)
lstrip(s) == IF s # <<>> /\ Head(s) = " " THEN lstrip(Tail(s)) ELSE s

RECURSIVE rstrip(_)
rstrip(s) ==
    IF s # <<>> /\ s[Len(s)] = " " THEN rstrip(SubSeq(s, 1, Len(s) - 1)) ELSE s

strip(s) == rstrip(lstrip(s))

\* PurePosixPath(s).is_absolute(): the string starts with "/"
is_absolute(s) == s # <<>> /\ Head(s) = "/"

\* PurePosixPath(s).parts without the root: split on "/", drop empty and "."
\* segments
RECURSIVE SplitSlash(_, _, _)
SplitSlash(s, cur, acc) ==
    IF s = <<>> THEN Append(acc, cur)
    ELSE IF Head(s) = "/" THEN SplitSlash(Tail(s), <<>>, Append(acc, cur))
    ELSE SplitSlash(Tail(s), Append(cur, Head(s)), acc)

parts(s) == SelectSeq(SplitSlash(s, <<>>, <<>>), LAMBDA p : p # <<>> /\ p # <<".">>)

HasDotDot(s) == \E i \in 1..Len(parts(s)) : parts(s)[i] = <<".", ".">>

\* a key the spec calls unsafe: empty, absolute, or with a ".." segment
UnsafeKey(s) == s = <<>> \/ is_absolute(s) \/ HasDotDot(s)


\* ------------------------------------------------------------------ state
VARIABLES
    run,        \* number of the current run of the program
    pc,         \* position of the program
    ri,         \* main's loop variable: position of full_name in repos
    stage,      \* which prerequisite bootstrap is executing
    wc,         \* per repository: the working copy under repo_clone/
    attempts,   \* per repository: calls of process_one_repo in this run
    outcome,    \* per repository: how process_one_repo ended in this run
    contents,   \* this call: what get_contents answered, per prerequisite
    ret,        \* this call: what ensure_*_file returned, per prerequisite
    listed,     \* this call: repo.get_issues was called
    remoteIssues, \* this call: the open issues the remote holds, in its order
    issues,     \* this call: the list process_one_repo iterates over
    resp,       \* this call: what the OpenAI call answered
    eff,        \* this call: counters of the effects produced
    faults,     \* this call: some external call failed
    entry,      \* this call: its repository, and the branch its working copy
                \* had checked out when the prerequisite checks began
    files,      \* safe_save_files: the keys of the File Set handed in, in order
    spc,        \* safe_save_files: "loop", "returned" or "raised"
    written,    \* safe_save_files: the keys written so far, in order
    err         \* safe_save_files: the exception raised

vars == <<run, pc, ri, stage, wc, attempts, outcome, contents, ret, listed,
          remoteIssues, issues, resp, eff, faults, entry, files, spc, written,
          err>>

callVars == <<contents, ret, listed, remoteIssues, issues, resp, eff, faults,
              entry>>
saveVars == <<files, spc, written, err>>
mainVars == <<run, pc, ri, stage, wc, attempts, outcome, contents, ret, listed,
              remoteIssues, issues, resp, eff, faults, entry>>

\* an issue as the remote API returns it
IssueRecords == [number : 1..MaxIssues, labels : SUBSET Labels]

\* the open issues of a repository: distinct numbers, any order
IssueLists ==
    {s \in SeqsUpTo(IssueRecords, MaxIssues) :
        \A i, j \in 1..Len(s) : i # j => s[i].number # s[j].number}

\* File Sets the generation call may answer with (keys only, in order)
GenFileSets == {<< <<"a">> >>, << <<".", ".", "/", "a">> >>,
                << <<"a">>, <<".", ".", "/", "a">> >>}
\* answers of the OpenAI call: the call fails, the text is no JSON, or the
\* text parses to a File Set
GenResponses ==
    {[status |-> "api_error", keys |-> <<>>], [status |-> "bad_json", keys |-> <<>>]}
    \cup {[status |-> "json", keys |-> fs] : fs \in GenFileSets}
NoResponse == [status |-> "none", keys |-> <<>>]

NoEffects == [writes |-> 0, branches |-> 0, commits |-> 0, pushes |-> 0,
              prs |-> <<>>, labels |-> 0, comments |-> 0, genCalls |-> 0]

\* a working copy: whether repo_clone/<name> exists and the branch checked out
\* in it (what the files hold is counted in eff.writes, not kept)
FreshClone == [exists |-> TRUE, branch |-> "main"]
NoClone    == [exists |-> FALSE, branch |-> "main"]

\* an exception: its type and the pieces its message is put together from
NoError == [type |-> "none", msg |-> <<>>]

\* the File Sets of up to n entries safe_save_files is applied to: dict keys
\* are distinct
FileSetInputs(n) ==
    {fs \in SeqsUpTo(Keys, n) :
        \A i, j \in 1..Len(fs) : i # j => fs[i] # fs[j]}

\* no call of process_one_repo has reached the prerequisite checks yet
NoEntry == [repo |-> 0, branch |-> "none"]

CallInit ==
    /\ contents = [k \in Kinds |-> "none"]
    /\ ret = [k \in Kinds |-> "none"]
    /\ listed = FALSE
    /\ remoteIssues = <<>>
    /\ issues = <<>>
    /\ resp = NoResponse
    /\ eff = NoEffects
    /\ faults = FALSE
    /\ entry = NoEntry

CallReset ==
    /\ contents' = [k \in Kinds |-> "none"]
    /\ ret' = [k \in Kinds |-> "none"]
    /\ listed' = FALSE
    /\ remoteIssues' = <<>>
    /\ issues' = <<>>
    /\ resp' = NoResponse
    /\ eff' = NoEffects
    /\ faults' = FALSE
    /\ entry' = NoEntry

Init ==
    /\ run = 1
    /\ pc = "main"
    /\ ri = 1
    /\ stage = "renovate"
    /\ wc = [r \in Repos |-> NoClone]
    /\ attempts = [r \in Repos |-> 0]
    /\ outcome = [r \in Repos |-> "none"]
    /\ CallInit
    /\ files = <<>>
    /\ spc = "returned"
    /\ written = <<>>
    /\ err = NoError


\* ---------------------------------------------------------------- helpers
Bump(field) == [eff EXCEPT ![field] = @ + 1]

\* process_one_repo returns normally: main's loop goes to the next repository
Return ==
    /\ pc' = "main"
    /\ ri' = ri + 1
    /\ outcome' = [outcome EXCEPT ![ri] = "returned"]

\* an exception leaves process_one_repo
Raise ==
    /\ pc' = "except"
    /\ outcome' = [outcome EXCEPT ![ri] = "raised"]
    /\ UNCHANGED ri

\* a caller that goes on to the issues after a workflow bootstrap
ContinueIgnoresWorkflow(kind, value) ==
    IF value \/ kind = "workflow"
    THEN IF kind = "renovate"
         THEN pc' = "check" /\ stage' = "workflow" /\ UNCHANGED <<ri, outcome>>
         ELSE pc' = "list" /\ UNCHANGED <<stage, ri, outcome>>
    ELSE Return /\ UNCHANGED stage

\* a caller that goes on to the workflow check after a renovate bootstrap
ContinueIgnoresRenovate(kind, value) ==
    IF value \/ kind = "renovate"
    THEN IF kind = "renovate"
         THEN pc' = "check" /\ stage' = "workflow" /\ UNCHANGED <<ri, outcome>>
         ELSE pc' = "list" /\ UNCHANGED <<stage, ri, outcome>>
    ELSE Return /\ UNCHANGED stage

\* process_one_repo, lines 285-288: what follows the return value of
\* ensure_renovate_file / ensure_workflow_file
Continue(kind, value) ==
    IF value
    THEN IF kind = "renovate"
         THEN pc' = "check" /\ stage' = "workflow" /\ UNCHANGED <<ri, outcome>>
         ELSE pc' = "list" /\ UNCHANGED <<stage, ri, outcome>>
    ELSE Return /\ UNCHANGED stage

\* a listing that is not filtered by label
get_issues_all(remote) == remote

\* repo.get_issues(state="open", labels=[ISSUE_LABEL]): the remote returns the
\* open issues that carry the label, in its own order
get_issues(remote) == SelectSeq(remote, LAMBDA i : ISSUE_LABEL \in i.labels)

\* a work list that leaves out the issues carrying the in-progress label
WorkListExcluding(listing) ==
    SelectSeq(listing, LAMBDA i : EXCLUSION_LABEL \notin i.labels)

\* the list comprehension of lines 291-293: every listed issue, no filter
WorkList(listing) == listing

\* generate_code, lines 87-106: the exception it ends with.  The OpenAI call
\* may fail (line 89), the answer may not parse (line 104); when both succeed
\* line 106 reads the unbound name file_dict.
generate_code(answer) ==
    IF answer.status = "api_error" THEN "OpenAIError"
    ELSE IF answer.status = "bad_json" THEN "JSONDecodeError"
    ELSE "NameError"

\* ------------------------------------------------------------------- main
\* main, lines 349-351: the loop calls process_one_repo for the next repository
main_call ==
    /\ pc = "main"
    /\ ri <= NumRepos
    /\ attempts' = [attempts EXCEPT ![ri] = @ + 1]
    /\ CallReset
    /\ pc' = "get_repo"
    /\ stage' = "renovate"
    /\ UNCHANGED <<run, ri, wc, outcome, saveVars>>

\* a main without the try/except: the exception ends the program
main_propagates ==
    /\ pc = "except"
    /\ pc' = "crashed"
    /\ UNCHANGED <<run, ri, stage, wc, attempts, outcome, callVars, saveVars>>

\* main, lines 352-353: the exception is caught and printed, the loop goes on
main_except ==
    /\ pc = "except"
    /\ pc' = "main"
    /\ ri' = ri + 1
    /\ UNCHANGED <<run, stage, wc, attempts, outcome, callVars, saveVars>>

\* the program is started again (hourly CronJob) after main has returned
next_run ==
    /\ pc = "main"
    /\ ri > NumRepos
    /\ run < MaxRuns
    /\ run' = run + 1
    /\ ri' = 1
    /\ attempts' = [r \in Repos |-> 0]
    /\ outcome' = [r \in Repos |-> "none"]
    /\ UNCHANGED <<pc, stage, wc, callVars, saveVars>>

\* ------------------------------------------------------- process_one_repo
\* line 275: gh.get_repo(full_name)
get_repo ==
    /\ pc = "get_repo"
    /\ \E ok \in BOOLEAN :
         IF ok
         THEN pc' = "clone" /\ UNCHANGED <<ri, outcome, faults>>
         ELSE Raise /\ faults' = TRUE
    /\ UNCHANGED <<entry, run, stage, wc, attempts, contents, ret, listed,
                   remoteIssues, issues, resp, eff, saveVars>>

\* lines 279-282: clone unless the working copy exists
prepare_clone ==
    /\ pc = "clone"
    /\ IF wc[ri].exists
       THEN /\ pc' = "check"
            /\ entry' = [repo |-> ri, branch |-> wc[ri].branch]
            /\ UNCHANGED <<wc, ri, outcome, faults>>
       ELSE \E ok \in BOOLEAN :
              IF ok
              THEN /\ wc' = [wc EXCEPT ![ri] = FreshClone]
                   /\ pc' = "check"
                   /\ entry' = [repo |-> ri, branch |-> "main"]
                   /\ UNCHANGED <<ri, outcome, faults>>
              ELSE Raise /\ faults' = TRUE /\ UNCHANGED <<wc, entry>>
    /\ UNCHANGED <<run, stage, attempts, contents, ret, listed,
                   remoteIssues, issues, resp, eff, saveVars>>

\* ------------------------- ensure_renovate_file / ensure_workflow_file
\* lines 175-182 / 221-232: the existence check, and the default file written
\* when get_contents raised a GithubException
ensure_check(kind) ==
    /\ pc = "check"
    /\ stage = kind
    /\ \E o \in ContentsOutcomes :
         /\ contents' = [contents EXCEPT ![kind] = o]
         /\ IF Caught(o)
            THEN /\ eff' = Bump("writes")
                 /\ UNCHANGED wc
                 /\ faults' = (faults \/ o = "gh_error")
                 /\ pc' = "branch"
                 /\ UNCHANGED <<ret, stage, ri, outcome>>
            ELSE IF o = "exists"
            THEN /\ ret' = [ret EXCEPT ![kind] = "true"]
                 /\ Continue(kind, TRUE)
                 /\ UNCHANGED <<wc, eff, faults>>
            ELSE /\ ret' = [ret EXCEPT ![kind] = "raised"]
                 /\ Raise
                 /\ faults' = TRUE
                 /\ UNCHANGED <<wc, eff, stage>>
    /\ UNCHANGED <<entry, run, attempts, listed, remoteIssues, issues, resp, saveVars>>

\* lines 183-189 / 234-240: git checkout -b; a GitCommandError is printed and
\* the function returns False
ensure_branch(kind) ==
    /\ pc = "branch"
    /\ stage = kind
    /\ \E ok \in BOOLEAN :
         IF ok
         THEN /\ wc' = [wc EXCEPT ![ri].branch = BranchPrefix(kind)]
              /\ eff' = Bump("branches")
              /\ pc' = "push"
              /\ UNCHANGED <<ret, stage, ri, outcome, faults>>
         ELSE /\ ret' = [ret EXCEPT ![kind] = "false"]
              /\ Continue(kind, FALSE)
              /\ faults' = TRUE
              /\ UNCHANGED <<wc, eff>>
    /\ UNCHANGED <<entry, run, attempts, contents, listed, remoteIssues, issues, resp,
                   saveVars>>

\* lines 191-194 / 242-245: stage the default file, commit, push the branch
ensure_push(kind) ==
    /\ pc = "push"
    /\ stage = kind
    /\ \E ok \in BOOLEAN :
         IF ok
         THEN /\ eff' = [eff EXCEPT !.commits = @ + 1, !.pushes = @ + 1]
              /\ pc' = "pull"
              /\ UNCHANGED <<ret, ri, outcome, faults>>
         ELSE /\ eff' = Bump("commits")
              /\ ret' = [ret EXCEPT ![kind] = "raised"]
              /\ Raise
              /\ faults' = TRUE
    /\ UNCHANGED <<entry, run, stage, wc, attempts, contents, listed, remoteIssues,
                   issues, resp, saveVars>>

\* lines 196-207 / 247-258: repo.create_pull
ensure_pull(kind) ==
    /\ pc = "pull"
    /\ stage = kind
    /\ \E ok \in BOOLEAN :
         IF ok
         THEN /\ eff' = [eff EXCEPT !.prs = Append(@, kind)]
              /\ pc' = "checkout"
              /\ UNCHANGED <<ret, ri, outcome, faults>>
         ELSE /\ ret' = [ret EXCEPT ![kind] = "raised"]
              /\ Raise
              /\ faults' = TRUE
              /\ UNCHANGED eff
    /\ UNCHANGED <<entry, run, stage, wc, attempts, contents, listed, remoteIssues,
                   issues, resp, saveVars>>

\* a bootstrap that returns False without checking main out
ensure_checkout_stays(kind) ==
    /\ pc = "checkout"
    /\ stage = kind
    /\ ret' = [ret EXCEPT ![kind] = "false"]
    /\ Continue(kind, FALSE)
    /\ UNCHANGED <<entry, run, wc, attempts, contents, listed, remoteIssues,
                   issues, resp, eff, faults, saveVars>>

\* lines 209-210 / 260-261: git checkout main, return False
ensure_checkout(kind) ==
    /\ pc = "checkout"
    /\ stage = kind
    /\ \E ok \in BOOLEAN :
         IF ok
         THEN /\ wc' = [wc EXCEPT ![ri].branch = "main"]
              /\ ret' = [ret EXCEPT ![kind] = "false"]
              /\ Continue(kind, FALSE)
              /\ UNCHANGED faults
         ELSE /\ ret' = [ret EXCEPT ![kind] = "raised"]
              /\ Raise
              /\ faults' = TRUE
              /\ UNCHANGED <<wc, stage>>
    /\ UNCHANGED <<entry, run, attempts, contents, listed, remoteIssues, issues, resp,
                   eff, saveVars>>

\* lines 290-296: list the open issues that carry ISSUE_LABEL
list_issues ==
    /\ pc = "list"
    /\ \E ok \in BOOLEAN :
         IF ok
         THEN \E remote \in IssueLists :
                /\ listed' = TRUE
                /\ remoteIssues' = remote
                /\ issues' = WorkList(get_issues(remote))
                /\ IF issues' = <<>>
                   THEN Return
                   ELSE pc' = "generate" /\ UNCHANGED <<ri, outcome>>
                /\ UNCHANGED faults
         ELSE /\ Raise
              /\ faults' = TRUE
              /\ UNCHANGED <<listed, remoteIssues, issues>>
    /\ UNCHANGED <<entry, run, stage, wc, attempts, contents, ret, resp, eff, saveVars>>

\* an issue loop that catches the failure of generate_code and still opens the
\* pull request and comments on the issue
generate_swallows ==
    /\ pc = "generate"
    /\ \E answer \in GenResponses :
         /\ resp' = answer
         /\ eff' = [eff EXCEPT !.genCalls = @ + 1,
                               !.prs = Append(@, "demo"),
                               !.comments = @ + 1]
         /\ faults' = (faults \/ generate_code(answer) # "NameError")
         /\ Return
    /\ UNCHANGED <<entry, run, stage, wc, attempts, contents, ret, listed,
                   remoteIssues, issues, saveVars>>

\* lines 299-309: the first iteration of the issue loop calls generate_code,
\* which ends with an exception in every case; nothing in the loop catches
\* it, so it leaves process_one_repo
generate ==
    /\ pc = "generate"
    /\ \E answer \in GenResponses :
         /\ resp' = answer
         /\ eff' = Bump("genCalls")
         /\ faults' = (faults \/ generate_code(answer) # "NameError")
         /\ Raise
    /\ UNCHANGED <<entry, run, stage, wc, attempts, contents, ret, listed,
                   remoteIssues, issues, saveVars>>

\* -------------------------------------------------------- safe_save_files
\* the name `pathlib` is bound nowhere in the module: line 20 imports only Path
pathlib_bound == FALSE

\* a validation that accepts every name
check_nothing(raw_name) == NoError

\* lines 53-58 for one entry: the exception raised before anything is written.
\* Line 55 evaluates pathlib.Path(raw_name) for every name that passed line 53.
check_name(raw_name) ==
    IF raw_name = <<>> \/ strip(raw_name) = <<>>
    THEN [type |-> "ValueError", msg |-> << <<"Empty filename supplied.">> >>]
    ELSE IF ~pathlib_bound
    THEN [type |-> "NameError", msg |-> << <<"name 'pathlib' is not defined">> >>]
    ELSE IF is_absolute(raw_name)
    THEN [type |-> "ValueError",
          msg |-> << <<"Absolute path not allowed: ">>, raw_name >>]
    ELSE IF HasDotDot(raw_name)
    THEN [type |-> "ValueError",
          msg |-> << <<"Path traversal detected in: ">>, raw_name >>]
    ELSE NoError

\* line 48 with an empty dict: the loop body never runs, the function returns
save_return ==
    /\ spc = "loop"
    /\ Len(written) = Len(files)
    /\ spc' = "returned"
    /\ UNCHANGED <<files, written, err, mainVars>>

\* lines 48-73: one iteration of the loop over files.items()
save_entry ==
    /\ spc = "loop"
    /\ Len(written) < Len(files)
    /\ LET raw_name == files[Len(written) + 1]
           e == check_name(raw_name)
       IN  IF e # NoError
           THEN spc' = "raised" /\ err' = e /\ UNCHANGED written
           ELSE written' = Append(written, raw_name) /\ UNCHANGED <<spc, err>>
    /\ UNCHANGED <<files, mainVars>>

InitSave ==
    /\ run = 1
    /\ pc = "main"
    /\ ri = 1
    /\ stage = "renovate"
    /\ wc = [r \in Repos |-> NoClone]
    /\ attempts = [r \in Repos |-> 0]
    /\ outcome = [r \in Repos |-> "none"]
    /\ CallInit
    /\ files \in FileSetInputs(MaxEntries)
    /\ spc = "loop"
    /\ written = <<>>
    /\ err = NoError

NextSave == save_return \/ save_entry

SaveSpec == InitSave /\ [][NextSave]_vars

Next ==
    \/ main_call
    \/ main_except
    \/ next_run
    \/ get_repo
    \/ prepare_clone
    \/ ensure_check("renovate")
    \/ ensure_check("workflow")
    \/ ensure_branch("renovate")
    \/ ensure_branch("workflow")
    \/ ensure_push("renovate")
    \/ ensure_push("workflow")
    \/ ensure_pull("renovate")
    \/ ensure_pull("workflow")
    \/ ensure_checkout("renovate")
    \/ ensure_checkout("workflow")
    \/ list_issues
    \/ generate

Spec == Init /\ [][Next]_vars

\* main is sequential and every call it makes returns or raises: each step
\* that is possible is eventually taken
FairSpec == Spec /\ WF_vars(Next)


\* ------------------------------------------------------------------ claims
\* no call of process_one_repo is executing: the per-call variables hold the
\* result of the call that ended last
CallEnded == pc \in {"main", "except"}

\* main's loop has gone through the whole list
RunEnd == pc = "main" /\ ri > NumRepos

DemoPRs == Len(SelectSeq(eff.prs, LAMBDA k : k = "demo"))

\* position of the issue numbered n in a list of issues (0 when absent)
Pos(list, n) ==
    IF \E i \in 1..Len(list) : list[i].number = n
    THEN CHOOSE i \in 1..Len(list) : list[i].number = n
    ELSE 0

\* C1: once ensure_renovate_file or ensure_workflow_file has returned False in
\* a call of process_one_repo, that call lists no issue, makes no generation
\* call, opens no demo pull request and posts no comment, and the repository
\* is not called a second time in the run.
C1_BootstrapSkipsIssues ==
    /\ \A k \in Kinds :
         ret[k] = "false" =>
           /\ ~listed
           /\ issues = <<>>
           /\ pc \notin {"list", "generate"}
           /\ eff.genCalls = 0
           /\ DemoPRs = 0
           /\ eff.comments = 0
    /\ \A r \in Repos : attempts[r] <= 1

\* C1 witness: the workflow bootstrap opened its pull request, returned False
\* and process_one_repo has returned.
C1_Witness ==
    /\ pc = "main"
    /\ ret["renovate"] = "true"
    /\ ret["workflow"] = "false"
    /\ eff.prs = <<"workflow">>

C4_Claim ==
    (CallEnded /\ listed /\ Len(issues) = 1 /\ ~faults) =>
      /\ eff.genCalls = 1
      /\ DemoPRs = 1
      /\ eff.labels = 1
      /\ eff.comments = 1

\* C5: when get_contents finds the prerequisite, ensure_*_file returns True
\* and the step changes neither the working copy nor any effect counter (no
\* write, branch, commit, push or pull request), so a second such call leaves
\* the state of the first.
C5_ExistingPrerequisiteNoEffects ==
    [][\A k \in Kinds :
         (pc = "check" /\ stage = k /\ contents'[k] = "exists") =>
           /\ ret'[k] = "true"
           /\ wc' = wc
           /\ eff' = eff]_vars

\* C5 witness: in the second run both checks found their prerequisite and
\* nothing was produced.
C5_Witness ==
    /\ run = 2
    /\ ret = [k \in Kinds |-> "true"]
    /\ contents = [k \in Kinds |-> "exists"]
    /\ eff = NoEffects
    /\ wc[ri].branch = "main"

C7_Claim ==
    (CallEnded /\ listed) => eff.genCalls = Len(issues)

\* a call of process_one_repo is executing
InCall == pc \in {"get_repo", "clone", "check", "branch", "push", "pull",
                  "checkout", "list", "generate"}

\* C8: every repository is attempted at most once in a run and exactly once
\* when main's loop has ended; an exception that left process_one_repo is
\* caught while the loop still has its repository, and outside a call main
\* always has a next step until the loop has ended.
C8_MainIsolatesRepos ==
    /\ \A r \in Repos : attempts[r] <= 1
    /\ \A r \in Repos : (attempts[r] = 1) = (r < ri \/ (r = ri /\ pc # "main"))
    /\ RunEnd => \A r \in Repos : attempts[r] = 1 /\ outcome[r] # "none"
    /\ pc = "except" => (ri <= NumRepos /\ ENABLED main_except)
    /\ RunEnd \/ InCall \/ ENABLED main_call \/ ENABLED main_except

\* C8 witness: the first repository raised, and the loop ended with the last
\* repository attempted.
C8_Witness ==
    /\ RunEnd
    /\ outcome[1] = "raised"
    /\ attempts[NumRepos] = 1

\* C9: when the generation call answered a File Set whose only key is unsafe
\* and the call of process_one_repo has ended, nothing was written, no branch
\* was created, nothing was committed or pushed, no pull request was opened,
\* and the later issues of the work list were processed.
C9_Claim ==
    (/\ CallEnded
     /\ resp.status = "json"
     /\ Len(resp.keys) = 1
     /\ UnsafeKey(resp.keys[1])) =>
      /\ eff.writes = 0
      /\ eff.branches = 0
      /\ eff.commits = 0
      /\ eff.pushes = 0
      /\ eff.prs = <<>>
      /\ eff.genCalls = Len(issues)

\* the exception names the key: the key is one of the pieces of its message,
\* or the key is empty and the message says that the filename is empty
Names(e, key) ==
    \/ \E i \in 1..Len(e.msg) : e.msg[i] = key
    \/ key = <<>> /\ e.msg = << <<"Empty filename supplied.">> >>

\* C10: safe_save_files, applied to a File Set with a key that is empty,
\* absolute or holds a ".." segment, ends with a ValueError whose message
\* names such a key.
C10_Claim ==
    (spc # "loop" /\ \E i \in 1..Len(files) : UnsafeKey(files[i])) =>
      /\ spc = "raised"
      /\ err.type = "ValueError"
      /\ \E i \in 1..Len(files) : UnsafeKey(files[i]) /\ Names(err, files[i])


\* a key that is a safe relative path: neither unsafe nor blank, and with a
\* file name in it
SafeKey(s) == ~UnsafeKey(s) /\ strip(s) # <<>> /\ parts(s) # <<>>

\* C11: safe_save_files, applied to a File Set whose keys are all safe relative
\* paths, returns having written exactly the entries of the File Set, one
\* write per entry.
C11_Claim ==
    (spc # "loop" /\ \A i \in 1..Len(files) : SafeKey(files[i])) =>
      /\ spc = "returned"
      /\ written = files

\* the working copy of the repository of the current call
CallCopy == wc[entry.repo]

\* the call reached the end of a bootstrap: its pull request is open and
\* ensure_*_file has returned False
BootstrapEnded(k) ==
    /\ ret[k] = "false"
    /\ \E i \in 1..Len(eff.prs) : eff.prs[i] = k

\* C12: when process_one_repo has returned to main after the end of a bootstrap
\* (or of an issue's processing, which no run reaches), the working copy of
\* that repository has main checked out, whatever branch an earlier run left
\* checked out.
C12_MainRestored ==
    \A k \in Kinds :
      (CallEnded /\ BootstrapEnded(k)) => CallCopy.branch = "main"

\* C12 witness: an earlier run left the working copy on a work branch, this
\* run's bootstrap started there, opened its pull request and returned to main.
C12_Witness ==
    /\ pc = "main"
    /\ run = 2
    /\ entry.branch = "add-renovate"
    /\ BootstrapEnded("workflow")
    /\ CallCopy.branch = "main"


\* C13: when get_contents failed with anything but "not found", the check of
\* that prerequisite ends with the error and produces no file write, no
\* branch, no push and no pull request.
C13_Claim ==
    \A k \in Kinds :
      contents[k] \in {"gh_error", "other_error"} =>
        /\ ret[k] = "raised"
        /\ eff.writes = 0
        /\ eff.branches = 0
        /\ eff.pushes = 0
        /\ eff.prs = <<>>

\* C14: ensure_*_file has returned False only when the default was written and
\* its pull request opened.
C14_Claim ==
    \A k \in Kinds :
      ret[k] = "false" =>
        /\ eff.writes = 1
        /\ eff.pushes = 1
        /\ eff.prs = <<k>>


\* generate_code returned a File Set for the answer of the model
GenerationSucceeded ==
    /\ resp.status # "none"
    /\ generate_code(resp) \notin {"OpenAIError", "JSONDecodeError", "NameError"}

C17_Claim ==
    eff.branches > 0 => entry.branch = "main"

\* C18: safe_save_files writes the entries in order and never writes an
\* invalid entry or an entry after it; when it has stopped with an error, an
\* entry is left unwritten and what was written before it is still there.
C18_StopsAtInvalid ==
    /\ Len(written) <= Len(files)
    /\ written = SubSeq(files, 1, Len(written))
    /\ \A i \in 1..Len(files) : UnsafeKey(files[i]) => Len(written) < i
    /\ spc = "raised" => Len(written) < Len(files)

C18_Witness ==
    /\ spc = "raised"
    /\ Len(files) = 2
    /\ UnsafeKey(files[1])
    /\ ~UnsafeKey(files[2])
    /\ written = <<>>

\* no open issue of the repository carries the tracking label
NoTrackedIssue ==
    \A i \in 1..Len(remoteIssues) : ISSUE_LABEL \notin remoteIssues[i].labels

\* C20: as long as a call of process_one_repo has found every prerequisite it
\* checked and no open issue with the tracking label, it has written no file,
\* produced no branch, commit, push, pull request, label or comment, and the
\* checked-out branch is the one it started with.
C20_NothingChanges ==
    (/\ \A k \in Kinds : contents[k] \in {"none", "exists"}
     /\ NoTrackedIssue) =>
      /\ eff = NoEffects
      /\ entry.repo # 0 => CallCopy.branch = entry.branch

C20_Witness ==
    /\ pc = "main"
    /\ entry.repo # 0
    /\ outcome[entry.repo] = "returned"
    /\ \A k \in Kinds : contents[k] = "exists"
    /\ listed
    /\ remoteIssues # <<>>
    /\ NoTrackedIssue
    /\ eff = NoEffects
    /\ CallCopy.branch = entry.branch

====
